---- MODULE Spec2Model ----
(***************************************************************************)
(* Model of dcs (Discord Commit Summarizer), src/src/dcs/main.py.          *)
(*                                                                         *)
(* A Python str is a sequence of one-character strings.  Python indices    *)
(* are 0-based; Slice(s, a, b) is s[a:b].                                  *)
(*                                                                         *)
(* SplitSpec     : split_message run statement by statement on every       *)
(*                 message over Alphabet of length <= MaxLen and every     *)
(*                 limit in 0..MaxLimit.                                   *)
(* SummarizeSpec : one call of summarize_commits_with_ai for every batch,  *)
(*                 with and without the API key, and every answer of the   *)
(*                 text-generation endpoint.                               *)
(* NotifySpec    : one call of send_failure_email for every truth value of *)
(*                 its settings and every outcome of the SMTP session.     *)
(* Spec          : the script run as a program, from its module-level      *)
(*                 statements through main to the exit of the process,     *)
(*                 for every installation in Installations.                *)
(***************************************************************************)
EXTENDS Integers, Sequences, FiniteSets, TLC

(***************************************************************************)
(* Bounds of the model.                                                    *)
(***************************************************************************)
MaxLen == 5
MaxLimit == 3

(***************************************************************************)
(* Characters.  str.strip()/lstrip() remove whitespace; splitlines() cuts  *)
(* after a line boundary; rfind(" ") looks for the space character only.   *)
(***************************************************************************)
Whitespace == {" ", "\n", "\t"}
LineBreaks == {"\n"}
Alphabet == {"a", "b", " ", "\n", "\t"}

Min(S) == CHOOSE x \in S : \A y \in S : x <= y

\* s[a:b] for 0 <= a and 0 <= b
Slice(s, a, b) == SubSeq(s, a + 1, IF b > Len(s) THEN Len(s) ELSE b)

\* str.lstrip()
lstrip(s) ==
    LET keep == {i \in 1..Len(s) : s[i] \notin Whitespace}
    IN  IF keep = {} THEN <<>> ELSE SubSeq(s, Min(keep), Len(s))

\* str.rstrip()
rstrip(s) ==
    LET drop == {k \in 0..Len(s) : k = Len(s) \/ s[Len(s) - k] \notin Whitespace}
    IN  SubSeq(s, 1, Len(s) - Min(drop))

\* str.strip()
strip(s) == rstrip(lstrip(s))

\* str.rfind(c): the 0-based index of the last c, or -1
rfind(s, c) ==
    LET back == {k \in 0..(Len(s) - 1) : s[Len(s) - k] = c}
    IN  IF back = {} THEN -1 ELSE Len(s) - Min(back) - 1

\* str.splitlines(keepends=True)
RECURSIVE splitlines(_)
splitlines(s) ==
    IF Len(s) = 0 THEN <<>>
    ELSE LET brk == {i \in 1..Len(s) : s[i] \in LineBreaks}
         IN  IF brk = {} THEN <<s>>
             ELSE <<SubSeq(s, 1, Min(brk))>>
                      \o splitlines(SubSeq(s, Min(brk) + 1, Len(s)))

(***************************************************************************)
(* split_message.  The loop state is the pair (chunks, current_chunk).     *)
(***************************************************************************)
\* the body of the for loop before the while: lines 320-328
AddLine(st, line, limit) ==
    IF Len(st.current_chunk) + Len(line) > limit
    THEN [chunks |-> IF Len(st.current_chunk) > 0
                     THEN Append(st.chunks, st.current_chunk)
                     ELSE st.chunks,
          current_chunk |-> line]
    ELSE [chunks |-> st.chunks, current_chunk |-> st.current_chunk \o line]

\* SplitAt with the forced cut one character too far (limit + 1)
SplitAt_PastLimit(current_chunk, limit) ==
    LET split_at == rfind(Slice(current_chunk, 0, limit), " ")
    IN  IF split_at = -1 \/ split_at < limit \div 2 THEN limit + 1 ELSE split_at

\* SplitAt cutting at the last space wherever it lies, without the
\* midpoint test of line 334
SplitAt_NoMidpoint(current_chunk, limit) ==
    LET split_at == rfind(Slice(current_chunk, 0, limit), " ")
    IN  IF split_at = -1 THEN limit ELSE split_at

\* the cut position: lines 333-335
SplitAt(current_chunk, limit) ==
    LET split_at == rfind(Slice(current_chunk, 0, limit), " ")
    IN  IF split_at = -1 \/ split_at < limit \div 2 THEN limit ELSE split_at

\* CarveOnce resuming one character after the cut, as if every cut were at
\* a space
CarveOnce_SkipsCutChar(st, limit) ==
    LET split_at == SplitAt(st.current_chunk, limit)
    IN  [chunks |-> Append(st.chunks, Slice(st.current_chunk, 0, split_at)),
         current_chunk |->
             lstrip(Slice(st.current_chunk, split_at + 1, Len(st.current_chunk)))]

\* one iteration of the while loop: lines 333-338
CarveOnce(st, limit) ==
    LET split_at == SplitAt(st.current_chunk, limit)
    IN  [chunks |-> Append(st.chunks, Slice(st.current_chunk, 0, split_at)),
         current_chunk |->
             lstrip(Slice(st.current_chunk, split_at, Len(st.current_chunk)))]

\* the while loop: lines 331-338
RECURSIVE CarveAll(_, _)
CarveAll(st, limit) ==
    IF Len(st.current_chunk) > limit THEN CarveAll(CarveOnce(st, limit), limit)
    ELSE st

\* the for loop: lines 318-338
RECURSIVE SplitLines(_, _, _)
SplitLines(st, lines, limit) ==
    IF Len(lines) = 0 THEN st
    ELSE SplitLines(CarveAll(AddLine(st, Head(lines), limit), limit),
                    Tail(lines), limit)

\* [chunk.strip() for chunk in chunks if chunk.strip()]: line 345
StripChunks(chunks) ==
    LET kept == SelectSeq(chunks, LAMBDA c : Len(strip(c)) > 0)
    IN  [i \in 1..Len(kept) |-> strip(kept[i])]

\* FinishSplit without lines 341-342: what is left in current_chunk is lost
FinishSplit_DropsRest(st) == StripChunks(st.chunks)

\* after the for loop: lines 341-345
FinishSplit(st) ==
    StripChunks(IF Len(st.current_chunk) > 0
                THEN Append(st.chunks, st.current_chunk)
                ELSE st.chunks)

\* lines 308-345
split_message(message, limit) ==
    IF Len(message) <= limit THEN <<message>>
    ELSE FinishSplit(SplitLines([chunks |-> <<>>, current_chunk |-> <<>>],
                                splitlines(message), limit))

(***************************************************************************)
(* Text produced by the program.                                           *)
(***************************************************************************)
Rep(c, n) == [k \in 1..n |-> c]

Digits == <<"0", "1", "2", "3", "4", "5", "6", "7", "8", "9">>

\* str(n) for n >= 0, as the f-strings format integers
RECURSIVE IntToStr(_)
IntToStr(n) ==
    IF n < 10 THEN <<Digits[n + 1]>>
    ELSE IntToStr(n \div 10) \o <<Digits[(n % 10) + 1]>>

\* the first element of s.split("\n"): line 304
FirstLine(s) ==
    LET brk == {i \in 1..Len(s) : s[i] = "\n"}
    IN  IF brk = {} THEN s ELSE SubSeq(s, 1, Min(brk) - 1)

\* "No new commits found in the specified period."
NO_COMMITS_MESSAGE ==
    <<"N", "o", " ", "n", "e", "w", " ", "c", "o", "m", "m", "i", "t", "s",
      " ", "f", "o", "u", "n", "d", " ", "i", "n", " ", "t", "h", "e", " ",
      "s", "p", "e", "c", "i", "f", "i", "e", "d", " ", "p", "e", "r", "i",
      "o", "d", ".">>

\* "**Commit Summary (" date ")**\n\n"
SummaryHead ==
    <<"*", "*", "C", "o", "m", "m", "i", "t", " ", "S", "u", "m", "m", "a",
      "r", "y", " ", "(">>
SummaryHeadEnd == <<")", "*", "*", "\n", "\n">>
\* "Found " n " commits:\n"
FoundHead == <<"F", "o", "u", "n", "d", " ">>
FoundTail == <<" ", "c", "o", "m", "m", "i", "t", "s", ":", "\n">>
\* "- " backquote hash backquote ": " first line " (by " author ")\n"
\* the backquote character (a TLA+ string cannot hold it)
Backquote == "bq"
ItemHead == <<"-", " ", Backquote>>
ItemMid == <<Backquote, ":", " ">>
ItemBy == <<" ", "(", "b", "y", " ">>
ItemEnd == <<")", "\n">>

\* one line of the fallback summary: lines 301-305
CommitLine(commit) ==
    ItemHead \o Slice(commit.hexsha, 0, 7) \o ItemMid
        \o FirstLine(commit.message) \o ItemBy \o commit.author \o ItemEnd

RECURSIVE CommitLines(_)
CommitLines(commits) ==
    IF Len(commits) = 0 THEN <<>>
    ELSE CommitLine(Head(commits)) \o CommitLines(Tail(commits))

\* lines 293-306; today is the formatted datetime.now() of line 298
format_commits_basic(commits, today) ==
    IF Len(commits) = 0 THEN NO_COMMITS_MESSAGE
    ELSE SummaryHead \o today \o SummaryHeadEnd
            \o FoundHead \o IntToStr(Len(commits)) \o FoundTail
            \o CommitLines(commits)

(***************************************************************************)
(* The commits of the repository (what Repo.iter_commits can return).      *)
(***************************************************************************)
CommitA ==
    [hexsha  |-> <<"1", "a", "2", "b", "3", "c", "4", "d", "5", "e">>,
     message |-> <<"F", "i", "x", " ", "b", "u", "g", "\n", "\n",
                   "b", "o", "d", "y">>,
     author  |-> <<"A", "n", "a">>]
CommitB ==
    [hexsha  |-> <<"9", "f", "8", "e", "7", "d", "6", "c", "5", "b">>,
     message |-> <<"A", "d", "d", " ", "f", "e", "a", "t", "u", "r", "e">>,
     author  |-> <<"B", "o">>]
Commits == {CommitA, CommitB}

MaxCommits == 1
CommitBatches == UNION {[1..k -> Commits] : k \in 0..MaxCommits}

\* what the repository answers to get_commits_since: iter_commits succeeds
\* with a batch or raises GitCommandError (no branch main), and the diff of
\* the commits whose index is in nodiff fails
GitAnswers ==
    {[iter |-> "GitCommandError", commits |-> <<>>, nodiff |-> {}]}
        \cup {[iter |-> "ok", commits |-> b, nodiff |-> nd] :
                 b \in CommitBatches, nd \in {{}, {1}}}

\* Repo(repo_path): line 127
RepoOpen(kind) ==
    IF kind = "repo" THEN "ok"
    ELSE IF kind = "dir" THEN "InvalidGitRepositoryError"
    ELSE "NoSuchPathError"

\* a handler that catches everything raised, as "except BaseException" does
CaughtByExceptException_Everything(exc) == exc # "none"

\* "except Exception" catches every exception but the BaseException-only
\* ones (SystemExit, KeyboardInterrupt, GeneratorExit)
CaughtByExceptException(exc) ==
    exc \notin {"none", "SystemExit", "KeyboardInterrupt", "GeneratorExit"}

\* what a call gives its caller: a value, or an exception
Returned(value) == [exc |-> "none", value |-> value]
Raised(exc) == [exc |-> exc, value |-> <<>>]

\* the try body of get_commits_since: lines 127-153
GitTryBody(kind, git) ==
    IF RepoOpen(kind) # "ok" THEN Raised(RepoOpen(kind))
    ELSE IF git.iter # "ok" THEN Raised(git.iter)
    ELSE Returned([i \in 1..Len(git.commits) |->
                      [commit |-> git.commits[i],
                       diff_summary |-> IF i \in git.nodiff
                                        THEN "Diff not available."
                                        ELSE "1 file changed"]])

\* get_commits_since handling GitCommandError only
get_commits_since_OnlyGitCommandError(kind, git) ==
    LET r == GitTryBody(kind, git)
    IN  IF r.exc = "none" THEN r
        ELSE IF r.exc = "GitCommandError" THEN Returned(<<>>)
        ELSE r

\* lines 123-159
get_commits_since(kind, git) ==
    LET r == GitTryBody(kind, git)
    IN  IF r.exc = "none" THEN r
        ELSE IF r.exc = "GitCommandError" THEN Returned(<<>>)
        ELSE IF CaughtByExceptException(r.exc) THEN Returned(<<>>)
        ELSE r

(***************************************************************************)
(* summarize_commits_with_ai.                                              *)
(***************************************************************************)
\* the try body, lines 195-278: client.chat.completions.create raises, or
\* answers; only kind "content" has choices[0].message.content
AiTryBody(raw_commits, response, today) ==
    IF response.kind \in {"OpenAIError", "Exception"} THEN Raised(response.kind)
    ELSE IF response.kind = "content" /\ Len(response.content) > 0
         THEN Returned(strip(response.content))
         ELSE Returned(format_commits_basic(raw_commits, today))

\* AiTry handling OpenAIError only
AiTry_OnlyOpenAIError(raw_commits, response, today) ==
    LET r == AiTryBody(raw_commits, response, today)
    IN  IF r.exc = "none" THEN r
        ELSE IF r.exc = "OpenAIError"
             THEN Returned(format_commits_basic(raw_commits, today))
        ELSE r

\* AiTryBody with its handlers: lines 194-291
AiTry(raw_commits, response, today) ==
    LET r == AiTryBody(raw_commits, response, today)
    IN  IF r.exc = "none" THEN r
        ELSE IF r.exc = "OpenAIError"
             THEN Returned(format_commits_basic(raw_commits, today))
        ELSE IF CaughtByExceptException(r.exc)
             THEN Returned(format_commits_basic(raw_commits, today))
        ELSE r

\* lines 175-291
summarize_commits_with_ai(commits_data, api_key, response, today) ==
    LET raw_commits == [i \in 1..Len(commits_data) |-> commits_data[i].commit]
    IN  IF Len(commits_data) = 0 THEN Returned(NO_COMMITS_MESSAGE)
        ELSE IF ~api_key THEN Returned(format_commits_basic(raw_commits, today))
        ELSE AiTry(raw_commits, response, today)

(***************************************************************************)
(* send_to_discord: the text of one post.                                  *)
(***************************************************************************)
DISCORD_CHAR_LIMIT == 2000

\* the limit send_to_discord passes to split_message: line 357
ChunkLimit == DISCORD_CHAR_LIMIT - 20

PartHead == <<" ", "(", "P", "a", "r", "t", " ">>
Ellipsis == <<".", ".", ".">>

\* f" (Part {i+1}/{total_chunks})" if total_chunks > 1 else "": line 370
part_indicator(i, total_chunks) ==
    IF total_chunks > 1
    THEN PartHead \o IntToStr(i + 1) \o <<"/">> \o IntToStr(total_chunks)
            \o <<")">>
    ELSE <<>>

\* final_chunk without the truncation of lines 373-375
final_chunk_NoTruncation(chunk, i, total_chunks) ==
    chunk \o part_indicator(i, total_chunks)

\* lines 370-377
final_chunk(chunk, i, total_chunks) ==
    LET ind == part_indicator(i, total_chunks)
    IN  IF Len(chunk) + Len(ind) > DISCORD_CHAR_LIMIT
        THEN Slice(chunk, 0, DISCORD_CHAR_LIMIT - Len(ind) - 3)
                \o Ellipsis \o ind
        ELSE chunk \o ind

\* AfterPost without the break of line 394
AfterPost_NoBreak(ok, i, total_chunks, success) ==
    [success |-> success /\ ok, i |-> i + 1, leave |-> i + 1 >= total_chunks]

\* what happens after the post of chunk i: lines 383-394.  A failed post
\* sets success to False and breaks out of the loop.
AfterPost(ok, i, total_chunks, success) ==
    IF ok
    THEN [success |-> success, i |-> i + 1, leave |-> i + 1 >= total_chunks]
    ELSE [success |-> FALSE, i |-> i, leave |-> TRUE]

(***************************************************************************)
(* The answers of the text-generation endpoint.                            *)
(***************************************************************************)
MaxLongParts == 2

\* message.content of an answer that has one: empty, blank, short, two long
\* lines, two long words, and one word of MaxLongParts chunks and a character
AiContents ==
    {<<>>,
     <<" ", "\n">>,
     <<" ", "o", "k", "\n">>,
     Rep("a", ChunkLimit \div 2 + 1) \o <<"\n">> \o Rep("b", ChunkLimit \div 2 + 1),
     Rep("a", ChunkLimit - 3) \o <<" ">> \o Rep("b", 5),
     Rep("a", MaxLongParts * ChunkLimit + 1)}

\* the call raises, or the answer has no choices, no message in its first
\* choice, no content in that message, or a content
Responses ==
    {[kind |-> k, content |-> <<>>] :
        k \in {"OpenAIError", "Exception", "no_choices", "no_message",
               "no_content"}}
        \cup {[kind |-> "content", content |-> c] : c \in AiContents}

\* datetime.now().strftime("%Y-%m-%d") on the day of the run
Today == <<"2", "0", "2", "6", "-", "1", "1", "-", "0", "5">>

(***************************************************************************)
(* Configuration.  A setting is modelled by whether it is set (truthy).    *)
(***************************************************************************)
MainKeys == {"GIT_REPO_PATH", "DISCORD_WEBHOOK_URL", "GEMINI_API_KEY"}
SmtpKeys == {"SMTP_SERVER", "SMTP_USER", "SMTP_PASSWORD", "EMAIL_SENDER",
             "EMAIL_RECEIVER"}

\* the settings an installation defines: any of the main settings, the
\* notification flag or not, and the SMTP settings, all or all but one
Installations ==
    {m \cup e \cup (SmtpKeys \ x) :
        m \in SUBSET MainKeys,
        e \in {{}, {"ENABLE_EMAIL_NOTIFICATION"}},
        x \in {{}} \cup {{k} : k \in SmtpKeys}}

\* os.getenv(key) is truthy
getenv(environ, key) == key \in environ

\* lines 51-57; SMTP_PORT defaults to 587 and EMAIL_SENDER to SMTP_USER
EmailConfigFrom(environ) ==
    [SMTP_SERVER |-> getenv(environ, "SMTP_SERVER"),
     SMTP_PORT |-> TRUE,
     SMTP_USER |-> getenv(environ, "SMTP_USER"),
     SMTP_PASSWORD |-> getenv(environ, "SMTP_PASSWORD"),
     EMAIL_SENDER |-> getenv(environ, "EMAIL_SENDER")
                          \/ getenv(environ, "SMTP_USER"),
     EMAIL_RECEIVER |-> getenv(environ, "EMAIL_RECEIVER"),
     ENABLE_EMAIL_NOTIFICATION |->
         getenv(environ, "ENABLE_EMAIL_NOTIFICATION")]

\* lines 111-113
MainConfigFrom(environ) ==
    [GIT_REPO_PATH |-> getenv(environ, "GIT_REPO_PATH"),
     DISCORD_WEBHOOK_URL |-> getenv(environ, "DISCORD_WEBHOOK_URL"),
     GEMINI_API_KEY |-> getenv(environ, "GEMINI_API_KEY")]

Unread == [k \in {} |-> FALSE]

\* os.path.isdir(GIT_REPO_PATH): line 438
isdir(kind) == kind \in {"dir", "repo"}

\* the outcomes of lines 84-91: the mail is sent, the session fails with an
\* SMTP error or with another exception, or int(SMTP_PORT) raises ValueError
\* before a session is opened
SmtpOutcomes == {"sent", "SMTPAuthenticationError", "SMTPServerDisconnected",
                 "SMTPException", "Exception", "ValueError"}

\* whether smtplib.SMTP(...) of line 84 is reached
SessionOpened(smtp) == IF smtp = "ValueError" THEN 0 ELSE 1

\* the guards of lines 61 and 65
NotifierReady(config) ==
    /\ config.ENABLE_EMAIL_NOTIFICATION
    /\ config.SMTP_SERVER /\ config.SMTP_PORT /\ config.SMTP_USER
    /\ config.SMTP_PASSWORD /\ config.EMAIL_SENDER /\ config.EMAIL_RECEIVER

\* send_failure_email handling the SMTP errors only
send_failure_email_OnlySMTPException(config, smtp) ==
    IF ~NotifierReady(config)
    THEN [session |-> 0, sent |-> 0, exc |-> "none"]
    ELSE IF smtp = "sent"
    THEN [session |-> 1, sent |-> 1, exc |-> "none"]
    ELSE IF smtp \in {"SMTPAuthenticationError", "SMTPServerDisconnected",
                      "SMTPException"}
    THEN [session |-> 1, sent |-> 0, exc |-> "none"]
    ELSE [session |-> SessionOpened(smtp), sent |-> 0, exc |-> smtp]

\* lines 59-103: whether a session is opened, whether the mail is sent, and
\* the exception that leaves the function
send_failure_email(config, smtp) ==
    IF ~config.ENABLE_EMAIL_NOTIFICATION
    THEN [session |-> 0, sent |-> 0, exc |-> "none"]
    ELSE IF ~(/\ config.SMTP_SERVER /\ config.SMTP_PORT /\ config.SMTP_USER
              /\ config.SMTP_PASSWORD /\ config.EMAIL_SENDER
              /\ config.EMAIL_RECEIVER)
    THEN [session |-> 0, sent |-> 0, exc |-> "none"]
    ELSE IF smtp = "sent"
    THEN [session |-> 1, sent |-> 1, exc |-> "none"]
    ELSE IF smtp \in {"SMTPAuthenticationError", "SMTPServerDisconnected",
                      "SMTPException"}
    THEN [session |-> 1, sent |-> 0, exc |-> "none"]
    ELSE IF CaughtByExceptException(smtp)
    THEN [session |-> SessionOpened(smtp), sent |-> 0, exc |-> "none"]
    ELSE [session |-> SessionOpened(smtp), sent |-> 0, exc |-> smtp]

\* the configuration checks of main: lines 432-448
critical_error(config, kind) ==
    \/ ~config.GIT_REPO_PATH
    \/ (config.GIT_REPO_PATH /\ ~isdir(kind))
    \/ ~config.GEMINI_API_KEY

\* main raising when the delivery failed
delivery_failure_Fatal(delivered) == IF delivered THEN "none" ELSE "RuntimeError"

\* what main raises when send_to_discord returned delivered: nothing, a
\* failure is only logged (lines 516-520)
delivery_failure(delivered) == "none"

\* sys.exit(1): SystemExit when the name sys is bound (line 557), NameError
\* when it is not
sys_exit(bound) == IF bound THEN "SystemExit" ELSE "NameError"

(***************************************************************************)
(* State.                                                                  *)
(***************************************************************************)
VARIABLES
    sm_pc,             \* position inside split_message
    sm_message,        \* its argument message
    sm_limit,          \* its argument limit
    sm_lines,          \* the lines the for loop has not taken yet
    sm_chunks,         \* chunks
    sm_current_chunk,  \* current_chunk
    sm_result,         \* the returned list
    sc_pc,             \* position of a call of summarize_commits_with_ai
    sc_commits_data,   \* its argument commits_data
    sc_api_key,        \* GEMINI_API_KEY is set
    sc_response,       \* what the endpoint answered
    sc_result,         \* what the call returned or raised
    sf_pc,             \* position of a call of send_failure_email
    sf_config,         \* the module globals of lines 51-57 at that call
    sf_smtp,           \* how its SMTP session ended
    sf_result,         \* what the call did
    pc,                \* position of the script
    os_environ,        \* the settings in the process environment
    dotenv_file,       \* the settings in the .env file
    path_kind,         \* what GIT_REPO_PATH names: "missing", "dir", "repo"
    email_config,      \* the module globals of lines 51-57
    main_config,       \* the module globals of lines 111-113
    sys_imported,      \* the name sys is bound (line 557)
    called,            \* the functions main has invoked
    commits_data,      \* main: commits_data
    summary_message,   \* main: summary_message
    summary_source,    \* which answer of the endpoint produced it
    message_chunks,    \* send_to_discord: message_chunks
    send_i,            \* send_to_discord: the loop index i
    success,           \* send_to_discord: success
    posts,             \* the webhook posts attempted, in order
    send_result,       \* what send_to_discord returned ("none" before)
    raised,            \* the exception propagating through main
    exit_code,         \* the exit status of the process (-1 while it runs)
    catch_all_runs,    \* how often the handler of lines 533-552 has run
    email_calls,       \* calls of send_failure_email
    smtp_sessions,     \* SMTP sessions opened
    emails_sent        \* mails handed to the relay

sm_vars == <<sm_pc, sm_message, sm_limit, sm_lines, sm_chunks,
             sm_current_chunk, sm_result>>
sc_vars == <<sc_pc, sc_commits_data, sc_api_key, sc_response, sc_result>>
sf_vars == <<sf_pc, sf_config, sf_smtp, sf_result>>
env_vars == <<os_environ, dotenv_file, path_kind>>
cfg_vars == <<email_config, main_config, sys_imported>>
work_vars == <<called, commits_data, summary_message, summary_source>>
send_vars == <<message_chunks, send_i, success, posts, send_result>>
fail_vars == <<raised, exit_code, catch_all_runs>>
mail_vars == <<email_calls, smtp_sessions, emails_sent>>
prog_vars == <<pc, env_vars, cfg_vars, work_vars, send_vars, fail_vars,
               mail_vars>>
vars == <<sm_vars, sc_vars, sf_vars, prog_vars>>

\* split_message is not running
SplitOff ==
    /\ sm_pc = "off"
    /\ sm_message = <<>>
    /\ sm_limit = 0
    /\ sm_lines = <<>>
    /\ sm_chunks = <<>>
    /\ sm_current_chunk = <<>>
    /\ sm_result = <<>>

\* no separate call of summarize_commits_with_ai
SummarizeOff ==
    /\ sc_pc = "off"
    /\ sc_commits_data = <<>>
    /\ sc_api_key = FALSE
    /\ sc_response = [kind |-> "none", content |-> <<>>]
    /\ sc_result = Returned(<<>>)

\* no separate call of send_failure_email
NotifyOff ==
    /\ sf_pc = "off"
    /\ sf_config = Unread
    /\ sf_smtp = "none"
    /\ sf_result = [session |-> 0, sent |-> 0, exc |-> "none"]

\* the script before its first statement, position at
ScriptAt(at) ==
    /\ pc = at
    /\ email_config = Unread
    /\ main_config = Unread
    /\ sys_imported = FALSE
    /\ called = {}
    /\ commits_data = <<>>
    /\ summary_message = <<>>
    /\ summary_source = "none"
    /\ message_chunks = <<>>
    /\ send_i = 0
    /\ success = TRUE
    /\ posts = <<>>
    /\ send_result = "none"
    /\ raised = "none"
    /\ exit_code = -1
    /\ catch_all_runs = 0
    /\ email_calls = 0
    /\ smtp_sessions = 0
    /\ emails_sent = 0

\* the script is not running
ScriptOff ==
    /\ ScriptAt("off")
    /\ os_environ = {}
    /\ dotenv_file = {}
    /\ path_kind = "missing"

Strings(n) == UNION {[1..k -> Alphabet] : k \in 0..n}

SplitInit ==
    /\ sm_pc = "call"
    /\ sm_message \in Strings(MaxLen)
    /\ sm_limit \in 0..MaxLimit
    /\ sm_lines = <<>>
    /\ sm_chunks = <<>>
    /\ sm_current_chunk = <<>>
    /\ sm_result = <<>>
    /\ SummarizeOff
    /\ NotifyOff
    /\ ScriptOff

\* lines 310-311: the message fits
SplitReturnWhole ==
    /\ sm_pc = "call"
    /\ Len(sm_message) <= sm_limit
    /\ sm_result' = <<sm_message>>
    /\ sm_pc' = "done"
    /\ UNCHANGED <<sm_message, sm_limit, sm_lines, sm_chunks, sm_current_chunk>>
    /\ UNCHANGED <<sc_vars, sf_vars, prog_vars>>

\* lines 313-316
SplitBegin ==
    /\ sm_pc = "call"
    /\ ~(Len(sm_message) <= sm_limit)
    /\ sm_chunks' = <<>>
    /\ sm_current_chunk' = <<>>
    /\ sm_lines' = splitlines(sm_message)
    /\ sm_pc' = "line"
    /\ UNCHANGED <<sm_message, sm_limit, sm_result>>
    /\ UNCHANGED <<sc_vars, sf_vars, prog_vars>>

LoopState == [chunks |-> sm_chunks, current_chunk |-> sm_current_chunk]

AfterBody(st) ==
    /\ sm_chunks' = st.chunks
    /\ sm_current_chunk' = st.current_chunk
    /\ sm_pc' = IF Len(st.current_chunk) > sm_limit THEN "carve" ELSE "line"

\* lines 318-328: the for loop takes the next line
SplitNextLine ==
    /\ sm_pc = "line"
    /\ Len(sm_lines) > 0
    /\ AfterBody(AddLine(LoopState, Head(sm_lines), sm_limit))
    /\ sm_lines' = Tail(sm_lines)
    /\ UNCHANGED <<sm_message, sm_limit, sm_result>>
    /\ UNCHANGED <<sc_vars, sf_vars, prog_vars>>

\* lines 331-338: one iteration of the while loop.  A loop that does not
\* shorten current_chunk appends to chunks for ever; the model follows it
\* until chunks is longer than the message.
SplitCarve ==
    /\ sm_pc = "carve"
    /\ Len(sm_chunks) <= Len(sm_message)
    /\ AfterBody(CarveOnce(LoopState, sm_limit))
    /\ UNCHANGED <<sm_message, sm_limit, sm_lines, sm_result>>
    /\ UNCHANGED <<sc_vars, sf_vars, prog_vars>>

\* lines 340-345
SplitFinish ==
    /\ sm_pc = "line"
    /\ Len(sm_lines) = 0
    /\ sm_result' = FinishSplit(LoopState)
    /\ sm_pc' = "done"
    /\ UNCHANGED <<sm_message, sm_limit, sm_lines, sm_chunks, sm_current_chunk>>
    /\ UNCHANGED <<sc_vars, sf_vars, prog_vars>>

SplitNext ==
    \/ SplitReturnWhole
    \/ SplitBegin
    \/ SplitNextLine
    \/ SplitCarve
    \/ SplitFinish

SplitSpec == SplitInit /\ [][SplitNext]_vars

(***************************************************************************)
(* SummarizeSpec: one call of summarize_commits_with_ai on every batch of  *)
(* at most MaxCommits commits, with and without the API key, for every     *)
(* answer of the endpoint.                                                 *)
(***************************************************************************)
SummarizeInit ==
    /\ sc_pc = "call"
    /\ sc_commits_data \in {get_commits_since("repo", g).value : g \in GitAnswers}
    /\ sc_api_key \in BOOLEAN
    /\ sc_response = [kind |-> "none", content |-> <<>>]
    /\ sc_result = Returned(<<>>)
    /\ SplitOff
    /\ NotifyOff
    /\ ScriptOff

\* lines 175-291
SummarizeCall ==
    /\ sc_pc = "call"
    /\ \E response \in Responses :
          /\ sc_response' = response
          /\ sc_result' = summarize_commits_with_ai(sc_commits_data, sc_api_key,
                                                    response, Today)
    /\ sc_pc' = "done"
    /\ UNCHANGED <<sc_commits_data, sc_api_key, sm_vars, sf_vars, prog_vars>>

SummarizeNext == SummarizeCall

SummarizeSpec == SummarizeInit /\ [][SummarizeNext]_vars

(***************************************************************************)
(* NotifySpec: one call of send_failure_email for every truth value of the *)
(* module globals of lines 51-57 and every outcome of the SMTP session.    *)
(***************************************************************************)
\* the globals of lines 51-57, each truthy or not (a setting given as the
\* empty string is falsy, also where the read has a default)
EmailGlobals ==
    [SMTP_SERVER : BOOLEAN, SMTP_PORT : BOOLEAN, SMTP_USER : BOOLEAN,
     SMTP_PASSWORD : BOOLEAN, EMAIL_SENDER : BOOLEAN,
     EMAIL_RECEIVER : BOOLEAN, ENABLE_EMAIL_NOTIFICATION : BOOLEAN]

NotifyInit ==
    /\ sf_pc = "call"
    /\ sf_config \in EmailGlobals
    /\ sf_smtp = "none"
    /\ sf_result = [session |-> 0, sent |-> 0, exc |-> "none"]
    /\ SplitOff
    /\ SummarizeOff
    /\ ScriptOff

\* lines 59-103
NotifyCall ==
    /\ sf_pc = "call"
    /\ \E smtp \in SmtpOutcomes :
          /\ sf_smtp' = smtp
          /\ sf_result' = send_failure_email(sf_config, smtp)
    /\ sf_pc' = "done"
    /\ UNCHANGED <<sf_config, sm_vars, sc_vars, prog_vars>>

NotifyNext == NotifyCall

NotifySpec == NotifyInit /\ [][NotifyNext]_vars

(***************************************************************************)
(* Spec: the script, from its first module-level statement to its exit.    *)
(***************************************************************************)
Init ==
    /\ ScriptAt("import_email_config")
    /\ \E inst \in Installations, where \in {"environ", "dotenv"} :
          /\ os_environ = IF where = "environ" THEN inst ELSE {}
          /\ dotenv_file = IF where = "dotenv" THEN inst ELSE {}
    /\ path_kind \in {"missing", "dir", "repo"}
    /\ SplitOff
    /\ SummarizeOff
    /\ NotifyOff

\* lines 51-57
ReadEmailConfig ==
    /\ pc = "import_email_config"
    /\ email_config' = EmailConfigFrom(os_environ)
    /\ pc' = "load_dotenv"
    /\ UNCHANGED <<env_vars, main_config, sys_imported, work_vars, send_vars,
                   fail_vars, mail_vars, sm_vars, sc_vars, sf_vars>>

\* line 108: load_dotenv() adds the settings of .env that the environment
\* does not define
LoadDotenv ==
    /\ pc = "load_dotenv"
    /\ os_environ' = os_environ \cup dotenv_file
    /\ pc' = "import_main_config"
    /\ UNCHANGED <<dotenv_file, path_kind, cfg_vars, work_vars, send_vars,
                   fail_vars, mail_vars, sm_vars, sc_vars, sf_vars>>

\* lines 111-114
ReadMainConfig ==
    /\ pc = "import_main_config"
    /\ main_config' = MainConfigFrom(os_environ)
    /\ pc' = "script_entry"
    /\ UNCHANGED <<env_vars, email_config, sys_imported, work_vars, send_vars,
                   fail_vars, mail_vars, sm_vars, sc_vars, sf_vars>>

\* lines 555-558
ScriptEntry ==
    /\ pc = "script_entry"
    /\ sys_imported' = TRUE
    /\ pc' = "main"
    /\ UNCHANGED <<env_vars, email_config, main_config, work_vars, send_vars,
                   fail_vars, mail_vars, sm_vars, sc_vars, sf_vars>>

\* lines 413-427: ensure_log_dir_exists and log_to_run_file swallow their
\* own errors
MainStart ==
    /\ pc = "main"
    /\ pc' = "config_check"
    /\ UNCHANGED <<env_vars, cfg_vars, work_vars, send_vars, fail_vars,
                   mail_vars, sm_vars, sc_vars, sf_vars>>

\* a call of send_failure_email whose SMTP session ends as smtp, followed by
\* sys.exit(1)
NotifyAndExit(smtp) ==
    LET m == send_failure_email(email_config, smtp)
    IN  /\ email_calls' = email_calls + 1
        /\ smtp_sessions' = smtp_sessions + m.session
        /\ emails_sent' = emails_sent + m.sent
        /\ raised' = IF m.exc = "none" THEN sys_exit(sys_imported) ELSE m.exc

\* lines 430-461 when a check fails
ConfigCheckFails ==
    /\ pc = "config_check"
    /\ critical_error(main_config, path_kind)
    /\ \E smtp \in SmtpOutcomes : NotifyAndExit(smtp)
    /\ pc' = "raised_in_try"
    /\ UNCHANGED <<env_vars, cfg_vars, work_vars, send_vars, exit_code,
                   catch_all_runs, sm_vars, sc_vars, sf_vars>>

\* lines 430-462 when every check passes
ConfigCheckPasses ==
    /\ pc = "config_check"
    /\ ~critical_error(main_config, path_kind)
    /\ pc' = "fetch"
    /\ UNCHANGED <<env_vars, cfg_vars, work_vars, send_vars, fail_vars,
                   mail_vars, sm_vars, sc_vars, sf_vars>>

\* lines 465-484.  The attribute reads of lines 474-482 are outside every
\* inner handler: boom is one of them raising.
Fetch ==
    /\ pc = "fetch"
    /\ \E git \in GitAnswers, boom \in BOOLEAN :
          LET r == get_commits_since(path_kind, git)
          IN  IF r.exc # "none"
              THEN /\ commits_data' = commits_data
                   /\ raised' = r.exc
                   /\ pc' = "raised_in_try"
              ELSE /\ commits_data' = r.value
                   /\ IF boom /\ Len(r.value) > 0
                      THEN raised' = "Exception" /\ pc' = "raised_in_try"
                      ELSE raised' = raised /\ pc' = "summarize"
    /\ called' = called \cup {"get_start_date", "get_commits_since"}
    /\ UNCHANGED <<env_vars, cfg_vars, summary_message, summary_source,
                   send_vars, exit_code, catch_all_runs, mail_vars, sm_vars,
                   sc_vars, sf_vars>>

\* which branch of summarize_commits_with_ai produced the message
SourceOf(data, api_key, response) ==
    IF Len(data) = 0 THEN "no_commits"
    ELSE IF ~api_key THEN "no_key"
    ELSE IF response.kind = "content" /\ Len(response.content) = 0
    THEN "empty_content"
    ELSE response.kind

\* lines 486-511
Summarize ==
    /\ pc = "summarize"
    /\ \E response \in Responses :
          LET r == summarize_commits_with_ai(commits_data,
                       main_config.GEMINI_API_KEY, response, Today)
          IN  IF r.exc = "none"
              THEN /\ summary_message' = r.value
                   /\ summary_source' = SourceOf(commits_data,
                                            main_config.GEMINI_API_KEY, response)
                   /\ raised' = raised
                   /\ pc' = "publish"
              ELSE /\ summary_message' = summary_message
                   /\ summary_source' = summary_source
                   /\ raised' = r.exc
                   /\ pc' = "raised_in_try"
    /\ called' = called \cup {"summarize_commits_with_ai"}
    /\ UNCHANGED <<env_vars, cfg_vars, commits_data, send_vars, exit_code,
                   catch_all_runs, mail_vars, sm_vars, sc_vars, sf_vars>>

\* send_to_discord up to its loop: lines 348-368
SendBegin(webhook_url, message) ==
    IF ~webhook_url
    THEN /\ send_result' = "False"
         /\ pc' = "send_returned"
         /\ UNCHANGED <<message_chunks, send_i, success>>
    ELSE LET chunks == split_message(message, ChunkLimit)
         IN  /\ message_chunks' = chunks
             /\ send_i' = 0
             /\ success' = TRUE
             /\ IF Len(chunks) = 0
                THEN send_result' = "False" /\ pc' = "send_returned"
                ELSE send_result' = send_result /\ pc' = "send_loop"

\* lines 514-515
PublishToDiscord ==
    /\ pc = "publish"
    /\ main_config.DISCORD_WEBHOOK_URL
    /\ called' = called \cup {"send_to_discord"}
    /\ SendBegin(main_config.DISCORD_WEBHOOK_URL, summary_message)
    /\ UNCHANGED <<env_vars, cfg_vars, commits_data, summary_message,
                   summary_source, posts, fail_vars, mail_vars, sm_vars,
                   sc_vars, sf_vars>>

\* one iteration of the loop of send_to_discord: lines 369-396; ok is the
\* post answering 2xx
PostChunk ==
    /\ pc = "send_loop"
    /\ \E ok \in BOOLEAN :
          LET total_chunks == Len(message_chunks)
              a == AfterPost(ok, send_i, total_chunks, success)
          IN  /\ posts' = Append(posts,
                     [part |-> send_i + 1,
                      content |-> final_chunk(message_chunks[send_i + 1],
                                              send_i, total_chunks),
                      ok |-> ok])
              /\ success' = a.success
              /\ send_i' = a.i
              /\ IF a.leave
                 THEN /\ send_result' = IF a.success THEN "True" ELSE "False"
                      /\ pc' = "send_returned"
                 ELSE /\ send_result' = send_result
                      /\ pc' = "send_loop"
    /\ UNCHANGED <<env_vars, cfg_vars, work_vars, message_chunks, fail_vars,
                   mail_vars, sm_vars, sc_vars, sf_vars>>

\* lines 516-520: a failed delivery is logged
SendReturned ==
    /\ pc = "send_returned"
    /\ LET e == delivery_failure(send_result = "True")
       IN  IF e = "none"
           THEN raised' = raised /\ pc' = "finish"
           ELSE raised' = e /\ pc' = "raised_in_try"
    /\ UNCHANGED <<env_vars, cfg_vars, work_vars, send_vars, exit_code,
                   catch_all_runs, mail_vars, sm_vars, sc_vars, sf_vars>>

\* lines 521-527
PrintSummary ==
    /\ pc = "publish"
    /\ ~main_config.DISCORD_WEBHOOK_URL
    /\ pc' = "finish"
    /\ UNCHANGED <<env_vars, cfg_vars, work_vars, send_vars, fail_vars,
                   mail_vars, sm_vars, sc_vars, sf_vars>>

\* lines 529-531: main returns and the script ends
Finish ==
    /\ pc = "finish"
    /\ exit_code' = 0
    /\ pc' = "exited"
    /\ UNCHANGED <<env_vars, cfg_vars, work_vars, send_vars, raised,
                   catch_all_runs, mail_vars, sm_vars, sc_vars, sf_vars>>

\* lines 533-552: the handler of main
CatchAll ==
    /\ pc = "raised_in_try"
    /\ CaughtByExceptException(raised)
    /\ catch_all_runs' = catch_all_runs + 1
    /\ \E smtp \in SmtpOutcomes : NotifyAndExit(smtp)
    /\ pc' = "raised_in_handler"
    /\ UNCHANGED <<env_vars, cfg_vars, work_vars, send_vars, exit_code,
                   sm_vars, sc_vars, sf_vars>>

\* an exception leaves main: SystemExit(1) ends the process with status 1,
\* and so does any other exception nothing catches
ProcessExit ==
    /\ \/ pc = "raised_in_try" /\ ~CaughtByExceptException(raised)
       \/ pc = "raised_in_handler"
    /\ exit_code' = 1
    /\ pc' = "exited"
    /\ UNCHANGED <<env_vars, cfg_vars, work_vars, send_vars, raised,
                   catch_all_runs, mail_vars, sm_vars, sc_vars, sf_vars>>

Next ==
    \/ ReadEmailConfig
    \/ LoadDotenv
    \/ ReadMainConfig
    \/ ScriptEntry
    \/ MainStart
    \/ ConfigCheckFails
    \/ ConfigCheckPasses
    \/ Fetch
    \/ Summarize
    \/ PublishToDiscord
    \/ PostChunk
    \/ SendReturned
    \/ PrintSummary
    \/ Finish
    \/ CatchAll
    \/ ProcessExit

Spec == Init /\ [][Next]_vars

(***************************************************************************)
(* Properties of split_message (under SplitSpec).                          *)
(***************************************************************************)
RECURSIVE Concat(_)
Concat(ss) == IF Len(ss) = 0 THEN <<>> ELSE Head(ss) \o Concat(Tail(ss))

RemoveWhitespace(s) == SelectSeq(s, LAMBDA c : c \notin Whitespace)

HasNonWhitespace(s) == \E i \in 1..Len(s) : s[i] \notin Whitespace

SplitReturned == sm_pc = "done"

\* C1: for every message and every limit >= 1, every chunk split_message
\* returns has length at most limit.
C1_ChunksWithinLimit ==
    (SplitReturned /\ sm_limit >= 1) =>
        \A i \in 1..Len(sm_result) : Len(sm_result[i]) <= sm_limit

\* C1 witness: a message longer than the limit came back as several chunks,
\* one of them carved to exactly limit characters and a shorter last one.
C1_Witness ==
    /\ SplitReturned
    /\ sm_limit >= 2
    /\ Len(sm_message) > sm_limit
    /\ Len(sm_result) >= 2
    /\ Len(sm_result[1]) = sm_limit
    /\ Len(sm_result[Len(sm_result)]) < sm_limit

\* C2: for every message and every limit >= 1, the chunks concatenated in
\* order, whitespace deleted, are the message with its whitespace deleted.
C2_NonWhitespacePreserved ==
    (SplitReturned /\ sm_limit >= 1) =>
        RemoveWhitespace(Concat(sm_result)) = RemoveWhitespace(sm_message)

\* C2 witness: a message with two different letters and whitespace between
\* them was cut into three chunks or more, and all its letters came back.
C2_Witness ==
    /\ SplitReturned
    /\ sm_limit >= 1
    /\ Len(sm_result) >= 3
    /\ \E i, j, k \in 1..Len(sm_message) :
          /\ i < j /\ j < k
          /\ sm_message[i] = "a" /\ sm_message[j] \in Whitespace
          /\ sm_message[k] = "b"
    /\ Len(RemoveWhitespace(Concat(sm_result))) >= 3

\* C3: for every message and every limit, no chunk split_message returns is
\* empty or whitespace-only, and every chunk is trimmed.
C3_NoBlankChunkAllTrimmed ==
    SplitReturned =>
        \A i \in 1..Len(sm_result) :
            /\ HasNonWhitespace(sm_result[i])
            /\ strip(sm_result[i]) = sm_result[i]

\* C4: for every message M with len(M) <= limit, split_message returns
\* exactly one chunk, and that chunk is M trimmed.
C4_FittingMessageIsOneTrimmedChunk ==
    (SplitReturned /\ Len(sm_message) <= sm_limit) =>
        sm_result = <<strip(sm_message)>>

(***************************************************************************)
(* Properties of send_to_discord (under Spec).                             *)
(***************************************************************************)
\* C5: the posts of send_to_discord are chunk 1, chunk 2, ... in order, each
\* attempted once; nothing is attempted after a failed post, which makes the
\* function return False; it returns True only when all N posts succeeded.
C5_PostsInOrderStopAtFailure ==
    /\ Len(posts) <= Len(message_chunks)
    /\ \A k \in 1..Len(posts) :
          /\ posts[k].part = k
          /\ (k < Len(posts) => posts[k].ok)
          /\ (~posts[k].ok => send_result = "False")
    /\ send_result = "True" =>
          /\ Len(message_chunks) >= 1
          /\ Len(posts) = Len(message_chunks)
          /\ \A k \in 1..Len(posts) : posts[k].ok

\* C5 witness: of three chunks the second post failed, the third was never
\* attempted and send_to_discord returned False.
C5_Witness ==
    /\ Len(message_chunks) = 3
    /\ Len(posts) = 2
    /\ posts[1].ok
    /\ ~posts[2].ok
    /\ send_result = "False"
    /\ pc = "exited"

\* the loop state of part 100000 of 100000, the first part whose indicator
\* is longer than the 20 characters send_to_discord reserves: the body is cut
\* to DISCORD_CHAR_LIMIT - len(indicator) - 3 characters, "..." and the
\* indicator follow, and the post is DISCORD_CHAR_LIMIT characters long
TruncationFits ==
    LET total_chunks == 100000
        chunk == Rep("a", DISCORD_CHAR_LIMIT - 20)
        ind == part_indicator(total_chunks - 1, total_chunks)
        content == final_chunk(chunk, total_chunks - 1, total_chunks)
    IN  /\ Len(chunk) + Len(ind) > DISCORD_CHAR_LIMIT
        /\ content = Slice(chunk, 0, DISCORD_CHAR_LIMIT - Len(ind) - 3)
                        \o Ellipsis \o ind
        /\ Len(content) <= DISCORD_CHAR_LIMIT

\* C6: every content send_to_discord posts, the chunk plus " (Part i/N)" when
\* N > 1, is at most DISCORD_CHAR_LIMIT characters long: the chunks are made
\* with limit DISCORD_CHAR_LIMIT - 20, and a body that would not fit with its
\* indicator is cut and marked "..." before the indicator.
C6_PostedContentWithinLimit ==
    /\ \A k \in 1..Len(posts) :
          LET ind == part_indicator(k - 1, Len(message_chunks))
              content == posts[k].content
          IN  /\ Len(content) <= DISCORD_CHAR_LIMIT
              /\ Len(message_chunks[k]) <= DISCORD_CHAR_LIMIT - 20
              /\ Len(content) >= Len(ind)
              /\ SubSeq(content, Len(content) - Len(ind) + 1, Len(content)) = ind
    /\ TruncationFits

\* C6 witness: a chunk of exactly DISCORD_CHAR_LIMIT - 20 characters was
\* posted with its part indicator.
C6_Witness ==
    /\ Len(message_chunks) >= 2
    /\ Len(posts) >= 1
    /\ Len(message_chunks[1]) = DISCORD_CHAR_LIMIT - 20
    /\ Len(posts[1].content) > DISCORD_CHAR_LIMIT - 20

(***************************************************************************)
(* Properties of summarize_commits_with_ai (under SummarizeSpec).          *)
(***************************************************************************)
ScRawCommits == [i \in 1..Len(sc_commits_data) |-> sc_commits_data[i].commit]

\* the answer has a first-choice message content
ScContentPresent ==
    sc_response.kind = "content" /\ Len(sc_response.content) > 0

\* C7: summarize_commits_with_ai never raises and always returns a message;
\* for a non-empty batch it is the output of format_commits_basic on the same
\* commits when the credential is absent, the call fails or the response has
\* no first-choice content, and the trimmed first completion only when the
\* response has content.
C7_SummarizeFallsBack ==
    sc_pc = "done" =>
        /\ sc_result.exc = "none"
        /\ Len(sc_commits_data) > 0 =>
              IF sc_api_key /\ ScContentPresent
              THEN sc_result.value = strip(sc_response.content)
              ELSE sc_result.value = format_commits_basic(ScRawCommits, Today)

\* C7 witness: with the credential set and a non-empty batch the call failed
\* with an error that is no OpenAIError, and the fallback text came back.
C7_Witness ==
    /\ sc_pc = "done"
    /\ sc_api_key
    /\ Len(sc_commits_data) > 0
    /\ sc_response.kind = "Exception"
    /\ sc_result.exc = "none"
    /\ Len(sc_result.value) > Len(SummaryHead)
    /\ SubSeq(sc_result.value, 1, Len(SummaryHead)) = SummaryHead

(***************************************************************************)
(* Properties of main (under Spec).                                        *)
(***************************************************************************)
\* the module-level statements have run and main has been entered
InMain == pc \notin {"off", "import_email_config", "load_dotenv",
                     "import_main_config", "script_entry"}

Exited == pc = "exited"

\* the repository path is unset or no directory, or the AI credential is
\* unset
ConfigurationError ==
    \/ ~main_config.GIT_REPO_PATH
    \/ path_kind = "missing"
    \/ ~main_config.GEMINI_API_KEY

\* C8: when the repository path is unset or no directory, or the AI
\* credential is unset, the run calls the failure notifier exactly once and
\* exits 1 before any work: get_start_date, get_commits_since,
\* summarize_commits_with_ai and send_to_discord are never invoked and the
\* catch-all handler does not run.
C8_ConfigErrorIsFatalOnce ==
    (InMain /\ ConfigurationError) =>
        /\ called = {}
        /\ posts = <<>>
        /\ catch_all_runs = 0
        /\ email_calls <= 1
        /\ Exited => (email_calls = 1 /\ exit_code = 1)

\* C8 witness: a run without the AI credential, its repository in order, has
\* exited 1 after one mail.
C8_Witness ==
    /\ Exited
    /\ main_config.GIT_REPO_PATH
    /\ path_kind = "repo"
    /\ ~main_config.GEMINI_API_KEY
    /\ emails_sent = 1
    /\ exit_code = 1

\* the configured path is a directory that is no working copy
InvalidRepository == main_config.GIT_REPO_PATH /\ path_kind = "dir"

\* C9: an invalid repository (a directory that is not an openable working
\* copy) is a configuration error: the run is fatal, the error is emailed,
\* the process exits 1 before any work and no summary is generated or
\* published.
C9_InvalidRepositoryIsFatal ==
    (Exited /\ InvalidRepository) =>
        /\ exit_code = 1
        /\ email_calls >= 1
        /\ "summarize_commits_with_ai" \notin called
        /\ posts = <<>>

\* C9 amended: with the AI credential set, a directory that is not an
\* openable working copy passes the configuration checks; get_commits_since
\* returns the empty batch, the run generates the "No new commits" message,
\* posts it when a webhook is configured, sends no mail and exits 0.
C9_InvalidRepositoryIsEmptyBatch ==
    (InMain /\ InvalidRepository /\ main_config.GEMINI_API_KEY) =>
        /\ commits_data = <<>>
        /\ email_calls = 0
        /\ catch_all_runs = 0
        /\ Exited =>
              /\ exit_code = 0
              /\ called = {"get_start_date", "get_commits_since",
                           "summarize_commits_with_ai"}
                     \cup (IF main_config.DISCORD_WEBHOOK_URL
                           THEN {"send_to_discord"} ELSE {})
              /\ summary_message = NO_COMMITS_MESSAGE
              /\ main_config.DISCORD_WEBHOOK_URL =>
                    (Len(posts) = 1 /\ posts[1].content = NO_COMMITS_MESSAGE)

\* C9 witness: such a run has posted the "No new commits" message and exited
\* 0.
C9_Witness ==
    /\ Exited
    /\ InvalidRepository
    /\ main_config.GEMINI_API_KEY
    /\ exit_code = 0
    /\ Len(posts) = 1
    /\ posts[1].ok
    /\ posts[1].content = NO_COMMITS_MESSAGE

\* the AI strategy failed and the message is the fallback text
FallbackUsed ==
    summary_source \in {"OpenAIError", "Exception", "no_choices", "no_message",
                        "no_content", "empty_content", "no_key"}

\* C10: a run that passed the configuration checks and in which
\* send_to_discord reported failure, or the AI strategy failed and the
\* fallback text was used, completes normally: it exits 0 and
\* send_failure_email is never invoked.
C10_DegradedRunCompletes ==
    (send_result = "False" \/ FallbackUsed) =>
        /\ email_calls = 0
        /\ catch_all_runs = 0
        /\ raised = "none"
        /\ exit_code \in {-1, 0}
        /\ Exited => exit_code = 0

\* C10 witness: the endpoint failed, the fallback text was posted, the post
\* failed, and the run exited 0.
C10_Witness ==
    /\ Exited
    /\ summary_source = "OpenAIError"
    /\ Len(posts) = 1
    /\ ~posts[1].ok
    /\ send_result = "False"
    /\ exit_code = 0

(***************************************************************************)
(* Properties of send_failure_email (under NotifySpec).                    *)
(***************************************************************************)
\* C11: send_failure_email opens an SMTP session only when notification is
\* enabled and all six settings are present; disabled or with a setting
\* missing it returns without a session; whatever the SMTP layer does
\* (authentication failure, disconnect, other SMTP error, any other
\* exception) it returns normally, and it sends at most one mail, and only
\* through a session that went well.
C11_NotifierSwallowsErrors ==
    sf_pc = "done" =>
        /\ sf_result.exc = "none"
        /\ sf_result.session \in {0, 1}
        /\ sf_result.sent \in {0, 1}
        /\ sf_result.session = 1 => NotifierReady(sf_config)
        /\ ~NotifierReady(sf_config) =>
              (sf_result.session = 0 /\ sf_result.sent = 0)
        /\ sf_result.sent = 1 => (sf_result.session = 1 /\ sf_smtp = "sent")

\* C11 witness: enabled and fully configured, the session was opened, failed
\* with an error that is no SMTP error, and the call returned without a mail.
C11_Witness ==
    /\ sf_pc = "done"
    /\ NotifierReady(sf_config)
    /\ sf_smtp = "Exception"
    /\ sf_result = [session |-> 1, sent |-> 0, exc |-> "none"]

(***************************************************************************)
(* Properties of the carve loop of split_message (under SplitSpec).        *)
(***************************************************************************)
Max(S) == CHOOSE x \in S : \A y \in S : x >= y

SingleToken(s) == \A i \in 1..Len(s) : s[i] \notin Whitespace

\* ceil(a / b) for b >= 1
CeilDiv(a, b) == (a + b - 1) \div b

\* C12: for every limit >= 1 and every message of length L > limit without
\* whitespace, split_message returns exactly ceil(L / limit) chunks, chunk k
\* being the characters at positions (k-1)*limit .. k*limit - 1.
C12_SingleTokenCutByPosition ==
    (/\ SplitReturned
     /\ sm_limit >= 1
     /\ Len(sm_message) > sm_limit
     /\ SingleToken(sm_message)) =>
        /\ Len(sm_result) = CeilDiv(Len(sm_message), sm_limit)
        /\ \A k \in 1..Len(sm_result) :
              sm_result[k] = [j \in 1..(IF k * sm_limit <= Len(sm_message)
                                        THEN sm_limit
                                        ELSE Len(sm_message) - (k - 1) * sm_limit)
                                 |-> sm_message[(k - 1) * sm_limit + j]]

\* C12 witness: a token of five characters, both letters in it, came back
\* from limit 2 as three chunks, the last one a single character.
C12_Witness ==
    /\ SplitReturned
    /\ sm_limit = 2
    /\ Len(sm_message) = 5
    /\ SingleToken(sm_message)
    /\ \E i, j \in 1..5 : sm_message[i] = "a" /\ sm_message[j] = "b"
    /\ Len(sm_result) = 3
    /\ Len(sm_result[3]) = 1

\* the 0-based indices of the spaces among the first limit characters of buf
SpacesWithin(buf, limit) ==
    {s \in 0..(Len(buf) - 1) : s < limit /\ buf[s + 1] = " "}

\* r is rest with its leading whitespace removed
IsLeftStripOf(r, rest) ==
    \E n \in 0..Len(rest) :
        /\ r = SubSeq(rest, n + 1, Len(rest))
        /\ \A i \in 1..n : rest[i] \in Whitespace
        /\ Len(r) > 0 => r[1] \notin Whitespace

\* the carve step that cuts the buffer at position cut
CarvedAt(cut) ==
    /\ sm_chunks' = Append(sm_chunks, SubSeq(sm_current_chunk, 1, cut))
    /\ IsLeftStripOf(sm_current_chunk',
                     SubSeq(sm_current_chunk, cut + 1, Len(sm_current_chunk)))

\* C13: each time split_message carves a prefix from a buffer longer than
\* limit, the cut is at the last space s among the first limit characters
\* when there is one and s >= limit/2, and at limit otherwise; the prefix
\* before the cut is emitted and the rest, leading whitespace stripped, is
\* the new buffer.
C13_CutAtSpaceFromHalf ==
    [][sm_pc = "carve" =>
          LET spaces == SpacesWithin(sm_current_chunk, sm_limit)
          IN  CarvedAt(IF spaces # {} /\ 2 * Max(spaces) >= sm_limit
                       THEN Max(spaces) ELSE sm_limit)]_vars

\* C13 amended: the same with the midpoint rounded down, s >= limit // 2.
C13_CutAtSpaceFromFloorHalf ==
    [][sm_pc = "carve" =>
          LET spaces == SpacesWithin(sm_current_chunk, sm_limit)
          IN  CarvedAt(IF spaces # {} /\ Max(spaces) >= sm_limit \div 2
                       THEN Max(spaces) ELSE sm_limit)]_vars

\* C13 witness: a one-line message was carved with limit 3 at the space of
\* index 1, the rounded-down midpoint, and the buffer goes on after the
\* space.
C13_Witness ==
    /\ sm_pc \in {"line", "carve"}
    /\ sm_limit = 3
    /\ \A i \in 1..Len(sm_message) : sm_message[i] # "\n"
    /\ Len(sm_message) = 5
    /\ sm_message[2] = " "
    /\ sm_chunks = <<SubSeq(sm_message, 1, 1)>>
    /\ sm_current_chunk = SubSeq(sm_message, 3, 5)
    /\ sm_current_chunk[1] \notin Whitespace

\* C14: split_message terminates for every message and every limit: each
\* iteration of the carve loop strictly shortens the buffer, also when the
\* cut position is 0 or the limit is 0 or 1.
C14_CarveShortensBuffer ==
    [][sm_pc = "carve" => Len(sm_current_chunk') < Len(sm_current_chunk)]_vars

(***************************************************************************)
(* Properties of the script (under Spec).                                  *)
(***************************************************************************)
\* C15: send_to_discord never posts a content that is empty or
\* whitespace-only: called with a message that is empty or only whitespace
\* it makes no post and returns False.
C15_NoBlankPost ==
    /\ \A k \in 1..Len(posts) : HasNonWhitespace(posts[k].content)
    /\ (/\ "send_to_discord" \in called
        /\ ~HasNonWhitespace(summary_message)
        /\ send_result # "none") =>
          (posts = <<>> /\ send_result = "False")

\* C16: every configuration value is read from the environment only after
\* load_dotenv has run, so the notification settings come from the same
\* source as the repository path, the webhook URL and the API key: what main
\* works with is what the environment holds once the .env file is loaded.
C16_ConfigReadAfterDotenv ==
    /\ pc = "load_dotenv" => (email_config = Unread /\ main_config = Unread)
    /\ InMain =>
          /\ email_config = EmailConfigFrom(os_environ)
          /\ main_config = MainConfigFrom(os_environ)

====
